---- MODULE Spec2Model ----
(***************************************************************************)
(* Multiplex primer scheme assembly of primal/models.py:                   *)
(* MultiplexScheme.run, MultiplexScheme._find_primers, Region,             *)
(* CandidatePrimerPair, CandidatePrimer and CAlignment.                    *)
(*                                                                         *)
(* Coordinates are scaled down (amplicon length 15 instead of 400, primers *)
(* of one or two bases) so that every branch of the window search is       *)
(* reached on genomes of a few dozen bases.  Python floats are kept as     *)
(* exact fixed-point numbers: a percent identity p is stored as Fix * p,   *)
(* which makes the mean over the reference panel and the mean of a pair    *)
(* exact.                                                                  *)
(***************************************************************************)
EXTENDS Integers, Sequences, FiniteSets, TLC

VARIABLES
    genome_len,              \* len(self.primary_reference)
    step_size,               \* self.step_size
    min_overlap,             \* self.min_overlap
    pc,                      \* "loop": top of run()'s while; "find": top of _find_primers' while; "done"
    outcome,                 \* how run() ended: "running", "ended_normally", "no_suitable", "AttributeError"
    regions,                 \* run()'s local list of Region objects
    self_regions,            \* self.regions
    region_num,
    is_last_region,
    left_primer_left_limit,
    left_primer_right_limit,
    chunk_start,
    chunk_end,
    _chunk_start,
    _chunk_end,
    hit_left_limit,
    p3_returned_pairs,       \* history: some designPrimers call of this run returned a pair
    p3_always_diverse,       \* history: every designPrimers call so far returned a diverse list
    stub,                    \* what the deterministic designPrimers stub answers, per window asked
    first_run                \* the outcome and self.regions of an earlier run with the same stub

vars == <<genome_len, step_size, min_overlap, pc, outcome, regions, self_regions,
          region_num, is_last_region, left_primer_left_limit, left_primer_right_limit,
          chunk_start, chunk_end, _chunk_start, _chunk_end, hit_left_limit,
          p3_returned_pairs, p3_always_diverse, stub, first_run>>

----------------------------------------------------------------------------
(* Configuration of the run *)

amplicon_length == 15
\* max_variation = max_variation_num / max_variation_den = 0.2
max_variation_num == 1
max_variation_den == 5
max_candidates == 3
max_alts == 1
max_gap == 4
PRIMER_MAX_SIZE == 2

\* Bounds of the model
MaxGenomeLen == 35
MaxStepSize == 2
MaxOverlap == 2
MaxLeftOffset == 1
MaxAlts == 2
MaxWideRegions == 2

GenomeLengths == {amplicon_length + 2, MaxGenomeLen}
StepSizes == 1..MaxStepSize
Overlaps == {0, MaxOverlap}

\* The reference panel; references[1] is the primary reference.
references == <<1, 2, 3, 4, 5, 6>>

\* Fixed-point unit of a percent identity.
Fix == 2 * Len(references)

None == [none |-> TRUE]

Max(a, b) == IF a >= b THEN a ELSE b
Min(a, b) == IF a <= b THEN a ELSE b

\* Python's int() of the rational n / d: truncation toward zero.
IntTrunc(n, d) == IF n >= 0 THEN n \div d ELSE -((-n) \div d)

\* len(seq[a:b]) for a sequence of length n, with Python's slice rules.
SliceIndex(a, n) == IF a < 0 THEN Max(a + n, 0) ELSE Min(a, n)
SliceLen(a, b, n) == Max(SliceIndex(b, n) - SliceIndex(a, n), 0)

\* int((1 + max_variation / 2) * amplicon_length)
MaxProduct == IntTrunc(amplicon_length * (2 * max_variation_den + max_variation_num),
                       2 * max_variation_den)
\* int(amplicon_length * (1 - max_variation / 2))
MinProduct == IntTrunc(amplicon_length * (2 * max_variation_den - max_variation_num),
                       2 * max_variation_den)
PRIMER_PRODUCT_SIZE_RANGE == <<MinProduct, MaxProduct>>

----------------------------------------------------------------------------
(* The alignment oracle (adapter_alignment), as a deterministic stub.       *)
(* Primer sequences are tuples of bases.                                    *)

Bases == {"A", "C", "G", "T"}

L1 == <<"A", "C">>      \* conserved in every reference
L2 == <<"A", "G">>      \* reference 3 differs at the 3' terminal base
L3 == <<"T", "C">>      \* references 2, 3 and 4 carry the variant CC, 5 and 6 GC
L4 == <<"G">>           \* no alignment at all in reference 2
L3v == <<"C", "C">>     \* the most frequent variant of L3
L3w == <<"G", "C">>     \* the second variant of L3
R1 == <<"G", "T">>      \* conserved in every reference
R2 == <<"C", "T">>      \* reference 2 differs at the 3' terminal base
R3 == <<"G", "A">>      \* references 2 and 3 carry the variant TA
R4 == <<"T">>           \* conserved in every reference
R3v == <<"T", "A">>     \* the variant of R3

Aligned(identity, query, ref) ==
    [ref_start |-> 0, identity |-> Fix * identity, aln_query |-> query, aln_ref |-> ref]
NotAligned == [ref_start |-> -1]

adapter_alignment(direction, seq, ref) ==
    CASE seq = L2 /\ ref = 3 -> Aligned(50, seq, <<"A", "T">>)
      [] seq = L3 /\ ref \in {2, 3, 4} -> Aligned(50, seq, L3v)
      [] seq = L3 /\ ref \in {5, 6} -> Aligned(50, seq, L3w)
      [] seq = L4 /\ ref = 2 -> NotAligned
      [] seq = L3v /\ ref = 1 -> Aligned(50, seq, L3)
      [] seq = R2 /\ ref = 2 -> Aligned(50, seq, <<"C", "A">>)
      [] seq = R3 /\ ref \in {2, 3} -> Aligned(50, seq, R3v)
      [] seq = R3v /\ ref = 1 -> Aligned(50, seq, R3)
      [] OTHER -> Aligned(100, seq, seq)

Complement(b) ==
    CASE b = "A" -> "T" [] b = "T" -> "A" [] b = "C" -> "G" [] b = "G" -> "C" [] OTHER -> b

\* settings.MISMATCHES: the unordered pairs {primer base, complemented reference
\* base} that do not pair.
MISMATCHES == {{x, y} : x \in Bases, y \in Bases} \ {{x, Complement(x)} : x \in Bases}

----------------------------------------------------------------------------
(* CAlignment, CandidatePrimer, CandidatePrimerPair *)

CAlignment3prime(query, ref_comp) == {query[Len(query)], ref_comp[Len(ref_comp)]} \in MISMATCHES

CAlignment(primer, ref) ==
    LET r == adapter_alignment(primer.direction, primer.seq, ref) IN
    IF r.ref_start = -1
    THEN [failed |-> TRUE, percent_identity |-> 0, ref_id |-> ref]
    ELSE LET comp == [i \in 1..Len(r.aln_ref) |-> Complement(r.aln_ref[i])]
             mm == CAlignment3prime(r.aln_query, comp)
         IN [failed |-> FALSE,
             percent_identity |-> IF mm THEN 0 ELSE r.identity,
             full_primer_percent_identity |-> r.identity,
             aln_query |-> r.aln_query,
             aln_ref |-> r.aln_ref,
             ref_id |-> ref,
             mm_3prime |-> mm]

CandidatePrimer(direction, seq, start) ==
    [direction |-> direction, seq |-> seq, start |-> start,
     percent_identity |-> 0, alignments |-> <<>>]

RECURSIVE SumIdentity(_)
SumIdentity(alns) ==
    IF alns = <<>> THEN 0
    ELSE alns[1].percent_identity + SumIdentity(Tail(alns))

\* The mean taken over the alignments that succeeded only.
alignMeanOfAligned(primer) ==
    LET new == [i \in 1..Len(references) |-> CAlignment(primer, references[i])]
        aligned(a) == ~a.failed
    IN [primer EXCEPT !.alignments = primer.alignments \o new,
                      !.percent_identity =
                          SumIdentity(new) \div Max(Len(SelectSeq(new, aligned)), 1)]

\* CandidatePrimer.align
align(primer) ==
    LET new == [i \in 1..Len(references) |-> CAlignment(primer, references[i])]
        all == primer.alignments \o new
    IN [primer EXCEPT !.alignments = all,
                      !.percent_identity = SumIdentity(new) \div Len(all)]

\* CandidatePrimer.end
end(primer) ==
    IF primer.direction = "LEFT"
    THEN primer.start + Len(primer.seq)
    ELSE primer.start - Len(primer.seq)

CandidatePrimerPair(left, right) ==
    [left |-> left, right |-> right,
     mean_percent_identity |-> (left.percent_identity + right.percent_identity) \div 2]

\* CandidatePrimerPair.product_length
product_length(pair) == pair.right.start - pair.left.start + 1

----------------------------------------------------------------------------
(* Region *)

\* The key of Region.__init__'s sort, compared as Python compares tuples.
SortKey(pair) == <<pair.mean_percent_identity, end(pair.right)>>
KeyLess(a, b) == a[1] < b[1] \/ (a[1] = b[1] /\ a[2] < b[2])

\* list.sort(key=..., reverse=True): descending and stable, so pairs with equal
\* keys keep the order they had in the list.
RECURSIVE SortInsert(_, _)
SortInsert(sorted, pair) ==
    IF sorted = <<>> THEN <<pair>>
    ELSE IF KeyLess(SortKey(sorted[1]), SortKey(pair))
         THEN <<pair>> \o sorted
         ELSE <<sorted[1]>> \o SortInsert(Tail(sorted), pair)

RECURSIVE SortFrom(_, _)
SortFrom(sorted, rest) ==
    IF rest = <<>> THEN sorted
    ELSE SortFrom(SortInsert(sorted, rest[1]), Tail(rest))

sort_candidate_pairs(candidate_pairs) == SortFrom(<<>>, candidate_pairs)

\* The loop "for pair in self.candidate_pairs: pair.left.align(); pair.right.align()".
align_candidate_pairs(candidate_pairs) ==
    [i \in 1..Len(candidate_pairs) |->
        [candidate_pairs[i] EXCEPT !.left = align(@), !.right = align(@)]]

\* Reading each.aln_ref of an alignment that failed raises AttributeError.
HasFailedAlignment(primer) ==
    \E i \in 1..Len(primer.alignments) : primer.alignments[i].failed

\* [str(each.aln_ref) for each in primer.alignments if each.aln_ref != primer.seq]
Alts(primer) ==
    LET differs(a) == a.aln_ref # primer.seq
        kept == SelectSeq(primer.alignments, differs)
    IN [i \in 1..Len(kept) |-> kept[i].aln_ref]

Count(s, x) == Cardinality({i \in 1..Len(s) : s[i] = x})

\* Where the variant x first occurs in alts.
First(alts, x) == CHOOSE i \in 1..Len(alts) : alts[i] = x /\ \A j \in 1..(i - 1) : alts[j] # x

\* The index n (0-based) of the variant x in
\* [(alt, alts.count(alt)) for alt in set(alts)] once it is sorted by count,
\* descending.  Variants with the same count are taken in the order they first
\* occur in alts; Python's set has an order of its own there, which shows only
\* among variants with the same count, and no two variants with a count above
\* one share their count on the panel of this model.
AltsCountsIndex(alts, x) ==
    Cardinality({y \in {alts[i] : i \in 1..Len(alts)} :
                    \/ Count(alts, y) > Count(alts, x)
                    \/ Count(alts, y) = Count(alts, x) /\ First(alts, y) < First(alts, x)})

\* The selection with the count test left out.
TakenAltsAnyCount(alts, n) ==
    {x \in {alts[i] : i \in 1..Len(alts)} : AltsCountsIndex(alts, x) <= n - 1}

\* The variants that become alternates when Region is given max_alts = n: for
\* n, alt in enumerate(alts_counts), those with n <= max_alts - 1 and a count
\* above one.
TakenAltsUpTo(alts, n) ==
    {x \in {alts[i] : i \in 1..Len(alts)} :
        AltsCountsIndex(alts, x) <= n - 1 /\ Count(alts, x) > 1}

TakenAlts(alts) == TakenAltsUpTo(alts, max_alts)

\* The alternates one side of the top pair contributes when Region is given
\* max_alts = n, in the order of the loop.
AlternatesUpTo(primer, n) ==
    [k \in 1..Cardinality(TakenAltsUpTo(Alts(primer), n)) |->
        align(CandidatePrimer(
            primer.direction,
            CHOOSE x \in TakenAltsUpTo(Alts(primer), n) :
                Cardinality({y \in TakenAltsUpTo(Alts(primer), n) :
                    AltsCountsIndex(Alts(primer), y) < AltsCountsIndex(Alts(primer), x)}) = k - 1,
            primer.start))]

Alternates(primer) == AlternatesUpTo(primer, max_alts)

\* Region.__init__ raises (AttributeError) when an alignment of its top pair failed.
RegionRaises(candidate_pairs) ==
    LET aligned == align_candidate_pairs(sort_candidate_pairs(candidate_pairs))
    IN HasFailedAlignment(aligned[1].left) \/ HasFailedAlignment(aligned[1].right)

\* Region with the two pools the other way round.
RegionPoolsSwapped(num, candidate_pairs) ==
    LET aligned == align_candidate_pairs(sort_candidate_pairs(candidate_pairs))
    IN [region_num |-> num,
        pool |-> IF num % 2 = 0 THEN "1" ELSE "2",
        candidate_pairs |-> aligned,
        alternates |-> Alternates(aligned[1].left) \o Alternates(aligned[1].right)]

Region(num, candidate_pairs) ==
    LET aligned == align_candidate_pairs(sort_candidate_pairs(candidate_pairs))
    IN [region_num |-> num,
        pool |-> IF num % 2 = 0 THEN "2" ELSE "1",
        candidate_pairs |-> aligned,
        alternates |-> Alternates(aligned[1].left) \o Alternates(aligned[1].right)]

top_pair(region) == region.candidate_pairs[1]

unique_candidates(region) ==
    <<Cardinality({region.candidate_pairs[i].left.seq : i \in 1..Len(region.candidate_pairs)}),
      Cardinality({region.candidate_pairs[i].right.seq : i \in 1..Len(region.candidate_pairs)})>>

----------------------------------------------------------------------------
(* The primer design oracle (primer3.bindings.designPrimers), as a stub that *)
(* answers a template of length T with one of a few candidate lists.  Every  *)
(* pair lies inside the template and its product size, right offset - left  *)
(* offset + 1, is in PRIMER_PRODUCT_SIZE_RANGE.                             *)

Cand(off, size, left_seq, right_seq) ==
    [PRIMER_LEFT |-> <<off, Len(left_seq)>>,
     PRIMER_RIGHT |-> <<off + size - 1, Len(right_seq)>>,
     PRIMER_LEFT_SEQUENCE |-> left_seq,
     PRIMER_RIGHT_SEQUENCE |-> right_seq]

ProductSize(c) == c.PRIMER_RIGHT[1] - c.PRIMER_LEFT[1] + 1

Fits(c, T) ==
    /\ c.PRIMER_LEFT[1] >= 0
    /\ c.PRIMER_RIGHT[1] <= T - 1
    /\ ProductSize(c) >= PRIMER_PRODUCT_SIZE_RANGE[1]
    /\ ProductSize(c) <= PRIMER_PRODUCT_SIZE_RANGE[2]
    /\ c.PRIMER_LEFT[2] <= PRIMER_MAX_SIZE
    /\ c.PRIMER_RIGHT[2] <= PRIMER_MAX_SIZE

\* Candidate lists with three distinct LEFT and three distinct RIGHT sequences,
\* whose leftmost primer is at offset off and whose largest product is size.
DiverseLists(off, size) ==
    IF off = 0
    THEN { <<Cand(off, MinProduct, L4, R1), Cand(off, size - 1, L2, R2), Cand(off, size, L3, R3)>>,
           <<Cand(off, size - 1, L2, R4), Cand(off, size - 1, L1, R1), Cand(off, MinProduct, L3, R3)>>,
           <<Cand(off, size, L4, R1), Cand(off, size - 1, L1, R2), Cand(off, MinProduct, L3, R3)>> }
    ELSE { <<Cand(off, size, L1, R4), Cand(off, size - 1, L3, R1), Cand(off, MinProduct, L2, R2)>> }

\* Candidate lists without that diversity.
DegenerateLists ==
    { <<Cand(0, MinProduct, L1, R1), Cand(0, MinProduct, L1, R2), Cand(0, MinProduct, L2, R3)>>,
      <<Cand(0, MinProduct, L1, R1), Cand(0, MinProduct, L2, R1), Cand(0, MinProduct, L3, R2)>>,
      <<Cand(0, MinProduct, L1, R1)>> }

designPrimers(T) ==
    LET lists == DegenerateLists \cup
                 UNION {DiverseLists(off, MaxProduct - off) : off \in 0..MaxLeftOffset}
    IN {<<>>} \cup
       {l \in lists : Len(l) <= max_candidates /\ \A i \in 1..Len(l) : Fits(l[i], T)}

\* The loop over cand_num that builds candidate_pairs from primer3's output.
BuildCandidatePairs(primer3_output, start) ==
    [i \in 1..Min(max_candidates, Len(primer3_output)) |->
        LET c == primer3_output[i]
            left_start == c.PRIMER_LEFT[1] + start
            right_start == c.PRIMER_RIGHT[1] + start + 1
        IN CandidatePrimerPair(
               CandidatePrimer("LEFT", c.PRIMER_LEFT_SEQUENCE, left_start),
               CandidatePrimer("RIGHT", c.PRIMER_RIGHT_SEQUENCE, right_start))]

\* The guard with its threshold one too low.
DiverseOffByOne(candidate_pairs) ==
    /\ Cardinality({candidate_pairs[i].left.seq : i \in 1..Len(candidate_pairs)}) > 1
    /\ Cardinality({candidate_pairs[i].right.seq : i \in 1..Len(candidate_pairs)}) > 1

\* len(set_left) > 2 and len(set_right) > 2
Diverse(candidate_pairs) ==
    /\ Cardinality({candidate_pairs[i].left.seq : i \in 1..Len(candidate_pairs)}) > 2
    /\ Cardinality({candidate_pairs[i].right.seq : i \in 1..Len(candidate_pairs)}) > 2

----------------------------------------------------------------------------
(* MultiplexScheme.run: the limits of the next region *)

prev_pair(regs) ==
    IF Len(regs) >= 1 THEN regs[Len(regs)].candidate_pairs[1] ELSE None

prev_pair_same_pool(regs) ==
    IF Len(regs) > 2 THEN regs[Len(regs) - 1].candidate_pairs[1] ELSE None

LeftLimit(regs) ==
    LET prev == prev_pair(regs)
        same == prev_pair_same_pool(regs)
    IN IF same # None
       THEN IF prev.left.start > same.right.start
            THEN end(prev.left) + 1
            ELSE same.right.start + 1
       ELSE IF prev # None
            THEN end(prev.left) + 1
            ELSE 0

RightLimit(regs, overlap) ==
    IF prev_pair(regs) # None
    THEN end(prev_pair(regs).right) - overlap - 1
    ELSE max_gap

\* The test with <= in place of <.
IsLastRegionInclusive(regs, was_last, length) ==
    IF prev_pair(regs) # None /\ length - end(prev_pair(regs).right) <= amplicon_length
    THEN TRUE
    ELSE was_last

\* is_last_region stays set once it has been set.
IsLastRegion(regs, was_last, length) ==
    IF prev_pair(regs) # None /\ length - end(prev_pair(regs).right) < amplicon_length
    THEN TRUE
    ELSE was_last

(* MultiplexScheme._find_primers: where to slice the reference *)

InitialChunkStart(num, right_limit, is_last, length) ==
    IF num = 1 THEN 0
    ELSE IF is_last
         THEN IntTrunc(2 * max_variation_den * length
                         - (2 * max_variation_den + max_variation_num) * amplicon_length,
                       2 * max_variation_den)
         ELSE IntTrunc(max_variation_den * right_limit
                         - max_variation_num * amplicon_length
                         - max_variation_den * PRIMER_MAX_SIZE,
                       max_variation_den)

InitialChunkEnd(num, start, is_last, length) ==
    IF num = 1 THEN MaxProduct
    ELSE IF is_last THEN length
         ELSE IntTrunc(2 * max_variation_den * start
                         + (2 * max_variation_den + max_variation_num) * amplicon_length,
                       2 * max_variation_den)

----------------------------------------------------------------------------
\* The state when run() is entered, for a primary reference of one of the lengths.
InitWith(lengths) ==
    /\ genome_len \in lengths
    /\ step_size \in StepSizes
    /\ min_overlap \in Overlaps
    /\ pc = "loop"
    /\ outcome = "running"
    /\ regions = <<>>
    /\ self_regions = <<>>
    /\ region_num = 0
    /\ is_last_region = FALSE
    /\ left_primer_left_limit = 0
    /\ left_primer_right_limit = 0
    /\ chunk_start = 0
    /\ chunk_end = 0
    /\ _chunk_start = 0
    /\ _chunk_end = 0
    /\ hit_left_limit = FALSE
    /\ p3_returned_pairs = FALSE
    /\ p3_always_diverse = TRUE
    /\ stub = {}
    /\ first_run = None

Init == InitWith(GenomeLengths)

config == <<genome_len, step_size, min_overlap>>

\* The oracle stub and the earlier run: no statement of run() touches them.
harness == <<stub, first_run>>

\* One pass of run()'s loop up to the first designPrimers call of _find_primers.
StartRegion ==
    /\ pc = "loop"
    /\ LET last == IsLastRegion(regions, is_last_region, genome_len)
           right == RightLimit(regions, min_overlap)
           start == InitialChunkStart(region_num + 1, right, last, genome_len)
       IN /\ region_num' = region_num + 1
          /\ left_primer_left_limit' = LeftLimit(regions)
          /\ left_primer_right_limit' = right
          /\ is_last_region' = last
          /\ chunk_start' = start
          /\ chunk_end' = InitialChunkEnd(region_num + 1, start, last, genome_len)
          /\ _chunk_start' = start
          /\ _chunk_end' = InitialChunkEnd(region_num + 1, start, last, genome_len)
    /\ hit_left_limit' = FALSE
    /\ pc' = "find"
    /\ UNCHANGED <<config, harness, outcome, regions, self_regions, p3_returned_pairs,
                   p3_always_diverse>>

\* What designPrimers may answer for the current window.
Primer3Outputs == designPrimers(SliceLen(chunk_start, chunk_end, genome_len))

\* run() after regions.append(region) gave new_regions: "Handle the end".
HandleTheEndNoBreak(new_regions) ==
    pc' = "loop" /\ UNCHANGED <<outcome, self_regions>>

HandleTheEnd(new_regions) ==
    IF is_last_region
    THEN pc' = "done" /\ outcome' = "ended_normally" /\ self_regions' = new_regions
    ELSE pc' = "loop" /\ UNCHANGED <<outcome, self_regions>>

\* The window has the diversity asked for: the Region is built and run() appends
\* it, and stops if it was the last region.
ReturnRegion(primer3_output) ==
    LET candidate_pairs == BuildCandidatePairs(primer3_output, chunk_start) IN
    /\ pc = "find"
    /\ Diverse(candidate_pairs)
    /\ ~RegionRaises(candidate_pairs)
    /\ LET new_regions == Append(regions, Region(region_num, candidate_pairs))
       IN regions' = new_regions /\ HandleTheEnd(new_regions)
    /\ p3_returned_pairs' = TRUE
    /\ UNCHANGED p3_always_diverse
    /\ UNCHANGED <<config, harness, region_num, is_last_region, left_primer_left_limit,
                   left_primer_right_limit, chunk_start, chunk_end, _chunk_start,
                   _chunk_end, hit_left_limit>>

\* The window has the diversity asked for, but Region.__init__ raises: nothing
\* in run() catches it, so self.regions is never assigned.
RegionError(primer3_output) ==
    LET candidate_pairs == BuildCandidatePairs(primer3_output, chunk_start) IN
    /\ pc = "find"
    /\ Diverse(candidate_pairs)
    /\ RegionRaises(candidate_pairs)
    /\ pc' = "done"
    /\ outcome' = "AttributeError"
    /\ p3_returned_pairs' = TRUE
    /\ UNCHANGED p3_always_diverse
    /\ UNCHANGED <<config, harness, regions, self_regions, region_num, is_last_region,
                   left_primer_left_limit, left_primer_right_limit, chunk_start,
                   chunk_end, _chunk_start, _chunk_end, hit_left_limit>>

\* The handler leaving run() without assigning self.regions.
NoSuitableErrorReturns ==
    /\ pc' = "done"
    /\ outcome' = "no_suitable"
    /\ UNCHANGED <<regions, self_regions, region_num>>

\* The handler going on with the loop instead of leaving it.
NoSuitableErrorContinues ==
    /\ pc' = "loop"
    /\ UNCHANGED <<outcome, regions, self_regions, region_num>>

\* run()'s handler of NoSuitableError: break, then self.regions = regions.
NoSuitableErrorHandler ==
    /\ pc' = "done"
    /\ outcome' = "no_suitable"
    /\ self_regions' = regions
    /\ UNCHANGED <<regions, region_num>>

\* Stepping right, for region 1 or once the left limit was hit.
StepRight(primer3_output) ==
    LET candidate_pairs == BuildCandidatePairs(primer3_output, chunk_start) IN
    /\ pc = "find"
    /\ ~Diverse(candidate_pairs)
    /\ region_num = 1 \/ hit_left_limit
    /\ chunk_start' = chunk_start + step_size
    /\ chunk_end' = chunk_end + step_size
    /\ IF chunk_end' > genome_len
       THEN NoSuitableErrorHandler
       ELSE UNCHANGED <<pc, outcome, regions, self_regions, region_num>>
    /\ p3_returned_pairs' = (p3_returned_pairs \/ primer3_output # <<>>)
    /\ p3_always_diverse' = FALSE
    /\ UNCHANGED <<config, harness, is_last_region, left_primer_left_limit,
                   left_primer_right_limit, _chunk_start, _chunk_end, hit_left_limit>>

\* The left step that, at the left limit, changes direction where it stands
\* instead of going back to the first window.
StepLeftNoSnapBack(primer3_output) ==
    LET candidate_pairs == BuildCandidatePairs(primer3_output, chunk_start) IN
    /\ pc = "find"
    /\ ~Diverse(candidate_pairs)
    /\ ~(region_num = 1 \/ hit_left_limit)
    /\ chunk_start' = chunk_start - step_size
    /\ chunk_end' = chunk_end - step_size
    /\ hit_left_limit' = (chunk_start - step_size <= left_primer_left_limit)
    /\ p3_returned_pairs' = (p3_returned_pairs \/ primer3_output # <<>>)
    /\ p3_always_diverse' = FALSE
    /\ UNCHANGED <<config, harness, pc, outcome, regions, self_regions, region_num,
                   is_last_region, left_primer_left_limit, left_primer_right_limit,
                   _chunk_start, _chunk_end>>

\* Stepping left, for every other region, back to the first window once the
\* left limit is reached.
StepLeft(primer3_output) ==
    LET candidate_pairs == BuildCandidatePairs(primer3_output, chunk_start) IN
    /\ pc = "find"
    /\ ~Diverse(candidate_pairs)
    /\ ~(region_num = 1 \/ hit_left_limit)
    /\ IF chunk_start - step_size <= left_primer_left_limit
       THEN /\ chunk_start' = _chunk_start
            /\ chunk_end' = _chunk_end
            /\ hit_left_limit' = TRUE
       ELSE /\ chunk_start' = chunk_start - step_size
            /\ chunk_end' = chunk_end - step_size
            /\ UNCHANGED hit_left_limit
    /\ p3_returned_pairs' = (p3_returned_pairs \/ primer3_output # <<>>)
    /\ p3_always_diverse' = FALSE
    /\ UNCHANGED <<config, harness, pc, outcome, regions, self_regions, region_num,
                   is_last_region, left_primer_left_limit, left_primer_right_limit,
                   _chunk_start, _chunk_end>>

Next ==
    \/ StartRegion
    \/ \E primer3_output \in Primer3Outputs : ReturnRegion(primer3_output)
    \/ \E primer3_output \in Primer3Outputs : RegionError(primer3_output)
    \/ \E primer3_output \in Primer3Outputs : StepRight(primer3_output)
    \/ \E primer3_output \in Primer3Outputs : StepLeft(primer3_output)

Spec == Init /\ [][Next]_vars

----------------------------------------------------------------------------
(* Two runs with the same configuration against one deterministic stub of    *)
(* designPrimers.  The stub is fixed window by window: the first time a       *)
(* window is asked the stub's answer for it is chosen and kept, and every     *)
(* later query of that window, in this run or the next, gets that answer.     *)

window == <<chunk_start, chunk_end>>

StubKnows == \E a \in stub : a.window = window
StubAnswer == (CHOOSE a \in stub : a.window = window).output

AskStub ==
    /\ pc = "find"
    /\ ~StubKnows
    /\ \E primer3_output \in Primer3Outputs :
          stub' = stub \cup {[window |-> window, output |-> primer3_output]}
    /\ UNCHANGED <<config, pc, outcome, regions, self_regions, region_num, is_last_region,
                   left_primer_left_limit, left_primer_right_limit, chunk_start,
                   chunk_end, _chunk_start, _chunk_end, hit_left_limit,
                   p3_returned_pairs, p3_always_diverse, first_run>>

\* run() entered with is_last_region left as it is.
RunEntryKeepsLast ==
    /\ regions' = <<>>
    /\ region_num' = 0
    /\ UNCHANGED is_last_region

\* The first statements of run().
RunEntry ==
    /\ regions' = <<>>
    /\ region_num' = 0
    /\ is_last_region' = FALSE

\* A second MultiplexScheme is constructed from the same arguments.
RunAgain ==
    /\ pc = "done"
    /\ first_run = None
    /\ first_run' = [outcome |-> outcome, regions |-> self_regions]
    /\ self_regions' = <<>>
    /\ RunEntry
    /\ pc' = "loop"
    /\ outcome' = "running"
    /\ left_primer_left_limit' = 0
    /\ left_primer_right_limit' = 0
    /\ chunk_start' = 0
    /\ chunk_end' = 0
    /\ _chunk_start' = 0
    /\ _chunk_end' = 0
    /\ hit_left_limit' = FALSE
    /\ p3_returned_pairs' = FALSE
    /\ p3_always_diverse' = TRUE
    /\ UNCHANGED <<config, stub>>

TwoRunsNext ==
    \/ StartRegion
    \/ AskStub
    \/ StubKnows /\ ReturnRegion(StubAnswer)
    \/ StubKnows /\ RegionError(StubAnswer)
    \/ StubKnows /\ StepRight(StubAnswer)
    \/ StubKnows /\ StepLeft(StubAnswer)
    \/ RunAgain

\* Runs on short genomes.  run() is sequential code: it does not stop between two
\* statements.  While a window is searched a step right or a step left can always
\* be taken (designPrimers may return nothing), so fairness of the loop entry and
\* of the two steps is what keeps a run going.
ShortGenomeLengths ==
    {amplicon_length - 2, amplicon_length, amplicon_length + 2, amplicon_length + 5}
ShortInit == InitWith(ShortGenomeLengths)
FairShortSpec ==
    /\ ShortInit /\ [][Next]_vars
    /\ WF_vars(StartRegion)
    /\ WF_vars(\E primer3_output \in Primer3Outputs : StepRight(primer3_output))
    /\ WF_vars(\E primer3_output \in Primer3Outputs : StepLeft(primer3_output))

TwoRunsSpec == ShortInit /\ [][TwoRunsNext]_vars

\* Runs asked for an overlap of more than half an amplicon, on a genome of two
\* amplicon lengths and more, followed for their first regions only.
WideOverlap == amplicon_length \div 2 + 1
WideOverlapInit ==
    /\ genome_len \in {2 * amplicon_length, MaxGenomeLen}
    /\ step_size \in StepSizes
    /\ min_overlap = WideOverlap
    /\ pc = "loop"
    /\ outcome = "running"
    /\ regions = <<>>
    /\ self_regions = <<>>
    /\ region_num = 0
    /\ is_last_region = FALSE
    /\ left_primer_left_limit = 0
    /\ left_primer_right_limit = 0
    /\ chunk_start = 0
    /\ chunk_end = 0
    /\ _chunk_start = 0
    /\ _chunk_end = 0
    /\ hit_left_limit = FALSE
    /\ p3_returned_pairs = FALSE
    /\ p3_always_diverse = TRUE
    /\ stub = {}
    /\ first_run = None
MoreWideRegions == Len(regions) < MaxWideRegions
WideOverlapNext ==
    \/ MoreWideRegions /\ StartRegion
    \/ MoreWideRegions /\ \E primer3_output \in Primer3Outputs : ReturnRegion(primer3_output)
    \/ MoreWideRegions /\ \E primer3_output \in Primer3Outputs : RegionError(primer3_output)
    \/ MoreWideRegions /\ \E primer3_output \in Primer3Outputs : StepRight(primer3_output)
    \/ MoreWideRegions /\ \E primer3_output \in Primer3Outputs : StepLeft(primer3_output)
WideOverlapSpec == WideOverlapInit /\ [][WideOverlapNext]_vars

----------------------------------------------------------------------------
(* Properties *)

\* The mean conservation score of a pair: the average of the scores its two
\* primers hold after they were aligned against the panel.
PairScore(pair) == (pair.left.percent_identity + pair.right.percent_identity) \div 2

RegionSortedByScore(region) ==
    \A j \in 1..(Len(region.candidate_pairs) - 1) :
        ~KeyLess(<<PairScore(region.candidate_pairs[j]), end(region.candidate_pairs[j].right)>>,
                 <<PairScore(region.candidate_pairs[j + 1]),
                   end(region.candidate_pairs[j + 1].right)>>)

\* C1: in every constructed region the candidate pairs are in descending order of
\* (mean conservation score, right.end), the score being the average of the two
\* primers' mean identities over the panel.
C1_SortedByScore == \A k \in 1..Len(regions) : RegionSortedByScore(regions[k])

HasMismatch(primer) ==
    \E i \in 1..Len(primer.alignments) :
        ~primer.alignments[i].failed /\ primer.alignments[i].mm_3prime

Clean(primer) ==
    \A i \in 1..Len(primer.alignments) :
        ~primer.alignments[i].failed /\ ~primer.alignments[i].mm_3prime

\* Primer q is primer p but for 3' terminal mismatches of q.
SameButMismatch(p, q) ==
    /\ Len(p.alignments) = Len(q.alignments)
    /\ \A i \in 1..Len(q.alignments) :
          /\ ~q.alignments[i].failed
          /\ \/ q.alignments[i].mm_3prime
             \/ q.alignments[i].percent_identity = p.alignments[i].percent_identity

\* Pair b is pair a in every respect, except that one primer of b has a 3' terminal
\* mismatch against some reference.
MatchedButMismatch(a, b) ==
    /\ Clean(a.left) /\ Clean(a.right)
    /\ SameButMismatch(a.left, b.left) /\ SameButMismatch(a.right, b.right)
    /\ (HasMismatch(b.left) /\ Clean(b.right)) \/ (Clean(b.left) /\ HasMismatch(b.right))

MismatchScoresZero(primer) ==
    \A i \in 1..Len(primer.alignments) :
        (~primer.alignments[i].failed /\ primer.alignments[i].mm_3prime)
            => primer.alignments[i].percent_identity = 0

\* C2: of two candidate pairs of a region that are matched but for a 3' terminal
\* mismatch of one primer, the mismatched primer contributes 0 for that reference,
\* its pair scores lower, and the mismatched pair is not the top pair.
C2_MismatchNotTop ==
    \A k \in 1..Len(regions) :
        \A ia, ib \in 1..Len(regions[k].candidate_pairs) :
            LET a == regions[k].candidate_pairs[ia]
                b == regions[k].candidate_pairs[ib]
            IN MatchedButMismatch(a, b) =>
                  /\ MismatchScoresZero(b.left) /\ MismatchScoresZero(b.right)
                  /\ PairScore(b) < PairScore(a)
                  /\ ib # 1

\* The regions committed before region k.
Before(k) == SubSeq(regions, 1, k - 1)

\* C3: the top pair's left primer of every committed region N >= 2 starts no
\* earlier than the left limit derived for region N from regions N-1 and N-2.
C3_LeftStartRespectsLimit ==
    \A k \in 2..Len(regions) :
        top_pair(regions[k]).left.start >= LeftLimit(Before(k))

\* The left limit as the claim derives it: the same-pool pair is the top pair of
\* region N-2 whenever that region exists, and without a gap the limit is just
\* after its right.end.
ClaimedLeftLimit(regs) ==
    LET prev == IF Len(regs) >= 1 THEN top_pair(regs[Len(regs)]) ELSE None
        same == IF Len(regs) >= 2 THEN top_pair(regs[Len(regs) - 1]) ELSE None
    IN IF same # None
       THEN IF prev.left.start > same.right.start
            THEN end(prev.left) + 1
            ELSE end(same.right) + 1
       ELSE IF prev # None THEN end(prev.left) + 1 ELSE 0

\* C4: the left limit the window search of region N starts with is the claimed one.
C4_LeftLimitDerivation ==
    pc = "find" => left_primer_left_limit = ClaimedLeftLimit(regions)

\* C5: with both previous pairs present and the right limit at or below the left
\* limit, the run is ended as InvalidConfiguration and no window is searched.
C5_InfeasibleLimitsAreFatal ==
    (/\ region_num >= 1
     /\ pc = "find"
     /\ prev_pair(regions) # None
     /\ prev_pair_same_pool(regions) # None
     /\ left_primer_right_limit <= left_primer_left_limit)
        => outcome = "InvalidConfiguration"

\* C6: a window search that fails ends the run at once, with self.regions exactly
\* the regions committed before, and nothing happens after it.
C6_FailureKeepsCommitted ==
    [][/\ (outcome = "running" /\ outcome' = "no_suitable")
            => /\ pc' = "done"
               /\ self_regions' = regions
               /\ regions' = regions
               /\ region_num' = Len(regions) + 1
               /\ \A k \in 1..Len(regions) :
                     /\ regions[k].region_num = k
                     /\ regions[k].pool = (IF k % 2 = 0 THEN "2" ELSE "1")
       /\ outcome = "no_suitable" => UNCHANGED vars]_vars

C6_Witness ==
    pc = "done" /\ outcome = "no_suitable" /\ Len(self_regions) >= 2

\* C7: while designPrimers returns no pair, every query either moves the window
\* of region 1 strictly right inside the genome or ends the run with the window
\* search failure and no region; so the run ends after finitely many queries, with
\* zero committed regions.
C7_EmptyOracleTerminates ==
    /\ [][(pc = "find" /\ ~p3_returned_pairs')
            => \/ /\ pc' = "done"
                  /\ outcome' = "no_suitable"
                  /\ regions' = <<>> /\ self_regions' = <<>>
                  /\ region_num' = 1
               \/ /\ pc' = "find"
                  /\ region_num' = 1
                  /\ chunk_end' > chunk_end
                  /\ chunk_end' <= genome_len]_vars
    /\ <>(p3_returned_pairs
            \/ (pc = "done" /\ outcome = "no_suitable" /\ self_regions = <<>>))

\* The run ended without a region after several queries that returned nothing.
C7_Witness ==
    /\ pc = "done" /\ outcome = "no_suitable"
    /\ ~p3_returned_pairs
    /\ self_regions = <<>>
    /\ chunk_start > 2 * step_size

\* After region 1 less than one amplicon length remains, and every window got a
\* diverse candidate list.
JustAboveOneAmplicon ==
    /\ genome_len >= MaxProduct
    /\ genome_len < 2 * amplicon_length
    /\ p3_always_diverse

C9_ProductLengthInBand ==
    \A k \in 1..Len(regions) :
        /\ product_length(top_pair(regions[k])) >= PRIMER_PRODUCT_SIZE_RANGE[1]
        /\ product_length(top_pair(regions[k])) <= PRIMER_PRODUCT_SIZE_RANGE[2]

\* C10: every committed region has at least 3 distinct LEFT and 3 distinct RIGHT
\* candidate sequences, and a list with fewer commits nothing.
C10_CommittedRegionsAreDiverse ==
    /\ \A k \in 1..Len(regions) :
          unique_candidates(regions[k])[1] >= 3 /\ unique_candidates(regions[k])[2] >= 3
    /\ ~p3_returned_pairs => regions = <<>>

\* A region was committed after lists without the diversity had been stepped over.
C10_Witness ==
    /\ Len(regions) >= 1
    /\ pc = "loop"
    /\ chunk_start # _chunk_start
    /\ unique_candidates(regions[Len(regions)])[1] = 3

\* The region a step has just committed.
Committed == Len(regions') = Len(regions) + 1
NewRegion == regions'[Len(regions')]

\* In how many references the variant v is the aligned reference-side sequence of
\* the primer.
Support(primer, v) ==
    Cardinality({i \in 1..Len(primer.alignments) :
                    ~primer.alignments[i].failed /\ primer.alignments[i].aln_ref = v})

\* The variants of the primer: the aligned reference-side sequences that differ
\* from it.
Variants(primer) ==
    {primer.alignments[i].aln_ref : i \in 1..Len(primer.alignments)} \ {primer.seq}

\* How many variants are more frequent than v.
Rank(primer, v) ==
    Cardinality({w \in Variants(primer) : Support(primer, w) > Support(primer, v)})

AlternatesAllowed(primer, n) ==
    LET alts == AlternatesUpTo(primer, n) IN
    /\ Len(alts) <= n
    /\ \A i \in 1..Len(alts) :
          /\ alts[i].direction = primer.direction
          /\ alts[i].seq # primer.seq
          /\ Support(primer, alts[i].seq) > 1
          /\ Rank(primer, alts[i].seq) < n
    /\ \A i, j \in 1..Len(alts) : alts[i].seq = alts[j].seq => i = j

\* C11: on each side of the top pair of a region that is committed, and for every
\* value of max_alts, an alternate differs from the top primer, is the aligned
\* reference-side sequence in more than one reference and ranks within the first
\* max_alts variants by descending frequency; a side contributes at most max_alts
\* alternates (none with max_alts = 0), and the region stores those of its own
\* max_alts, LEFT before RIGHT.
C11_AlternatesAreFrequentVariants ==
    [][Committed =>
          /\ \A n \in 0..MaxAlts :
                /\ AlternatesAllowed(top_pair(NewRegion).left, n)
                /\ AlternatesAllowed(top_pair(NewRegion).right, n)
          /\ AlternatesUpTo(top_pair(NewRegion).left, 0) = <<>>
          /\ NewRegion.alternates =
                AlternatesUpTo(top_pair(NewRegion).left, max_alts)
                    \o AlternatesUpTo(top_pair(NewRegion).right, max_alts)]_vars

\* A committed region whose top LEFT primer has two variants found in more than
\* one reference, of which only the more frequent one is an alternate, and whose
\* top RIGHT primer gives an alternate too.
C11_Witness ==
    \E k \in 1..Len(regions) :
        LET left == top_pair(regions[k]).left IN
        /\ Cardinality({v \in Variants(left) : Support(left, v) > 1}) = 2
        /\ Len(regions[k].alternates) = 2
        /\ regions[k].alternates[1].seq = L3v
        /\ regions[k].alternates[2].direction = "RIGHT"

\* The primers of a region: those of its candidate pairs and its alternates.
PrimersOf(region) ==
    {region.candidate_pairs[j].left : j \in 1..Len(region.candidate_pairs)}
        \cup {region.candidate_pairs[j].right : j \in 1..Len(region.candidate_pairs)}
        \cup {region.alternates[j] : j \in 1..Len(region.alternates)}

\* C12: an alignment that failed or has a 3' terminal mismatch scores zero and
\* never aborts the construction of a Region or the run.
C12_AlignmentFailureIsLocal ==
    /\ outcome # "AttributeError"
    /\ \A k \in 1..Len(regions) : \A primer \in PrimersOf(regions[k]) :
          \A i \in 1..Len(primer.alignments) :
              (primer.alignments[i].failed \/ primer.alignments[i].mm_3prime)
                  => primer.alignments[i].percent_identity = 0

\* What one reference contributes to the score of a primer, from the answer of
\* the alignment oracle.
Contribution(primer, ref) ==
    LET r == adapter_alignment(primer.direction, primer.seq, ref) IN
    IF r.ref_start = -1 THEN 0
    ELSE IF {r.aln_query[Len(r.aln_query)], Complement(r.aln_ref[Len(r.aln_ref)])}
                \in MISMATCHES
         THEN 0
         ELSE r.identity

RECURSIVE SumContributions(_, _)
SumContributions(primer, refs) ==
    IF refs = <<>> THEN 0
    ELSE Contribution(primer, refs[1]) + SumContributions(primer, Tail(refs))

ScoredAsMean(primer) ==
    /\ Len(primer.alignments) = Len(references)
    /\ \A i \in 1..Len(references) : primer.alignments[i].ref_id = references[i]
    /\ Len(references) * primer.percent_identity = SumContributions(primer, references)

\* C13: the score of every primer of a region that is committed is the arithmetic
\* mean over all references of the contributions (0 for a failed alignment, 0 for
\* a 3' terminal mismatch, the reported percent identity otherwise), and the primer
\* holds one alignment record per reference.
C13_ScoreIsMeanOverPanel ==
    [][Committed => \A primer \in PrimersOf(NewRegion) : ScoredAsMean(primer)]_vars

\* A committed region with a primer whose alignment failed in one reference and a
\* primer with a 3' terminal mismatch.
C13_Witness ==
    \E k \in 1..Len(regions) :
        /\ \E primer \in PrimersOf(regions[k]) : HasFailedAlignment(primer)
        /\ \E primer \in PrimersOf(regions[k]) :
              ~HasFailedAlignment(primer) /\ HasMismatch(primer)

\* C14: the mean conservation score every candidate pair of a committed region
\* holds is the average of the scores of its two primers after scoring.
C14_PairMeanIsAverageOfScores ==
    \A k \in 1..Len(regions) : \A j \in 1..Len(regions[k].candidate_pairs) :
        regions[k].candidate_pairs[j].mean_percent_identity
            = PairScore(regions[k].candidate_pairs[j])

\* What the claim compares of a region: its number, its pool, and which pair is
\* its top pair, with its coordinates.
Summary(region) ==
    [region_num |-> region.region_num,
     pool |-> region.pool,
     left |-> <<top_pair(region).left.seq, top_pair(region).left.start>>,
     right |-> <<top_pair(region).right.seq, top_pair(region).right.start>>]

NumberedAndPooled(regs) ==
    \A k \in 1..Len(regs) :
        /\ regs[k].region_num = k
        /\ regs[k].pool = (IF k % 2 = 0 THEN "2" ELSE "1")
        /\ k > 1 => regs[k].pool # regs[k - 1].pool

\* C16: at every point of a run and in its result, however the run ended, the
\* k-th committed region has region_num k and pool "2" if k is even, else "1".
C16_NumbersAndPoolsAlternate ==
    /\ NumberedAndPooled(regions)
    /\ NumberedAndPooled(self_regions)
    /\ (pc = "done" /\ outcome \in {"ended_normally", "no_suitable"})
          => self_regions = regions

\* A run that ended by a terminal region with four regions.
C16_Witness ==
    pc = "done" /\ outcome = "ended_normally" /\ Len(self_regions) >= 4

\* C17: a region N >= 2 is searched as terminal exactly when less than one
\* amplicon length lies between the previous top pair's right.end and the end of
\* the primary reference; committing a region searched as terminal ends the run
\* with that region last, and nothing happens after the run has ended.
C17_TerminalRegionEndsRun ==
    /\ []((pc = "find" /\ region_num >= 2) =>
            (is_last_region
                <=> genome_len - end(top_pair(regions[Len(regions)]).right)
                        < amplicon_length))
    /\ [][/\ (Committed /\ is_last_region) =>
                (/\ pc' = "done" /\ outcome' = "ended_normally"
                 /\ self_regions' = regions'
                 /\ regions' = Append(regions, NewRegion))
          /\ (Committed /\ ~is_last_region) => pc' = "loop"
          /\ pc = "done" => UNCHANGED vars]_vars

\* A third region was searched as terminal and committed, and the run ended.
C17_Witness ==
    /\ pc = "done" /\ outcome = "ended_normally"
    /\ Len(self_regions) = 3
    /\ is_last_region

\* C18: the top pair's left primer of every region N >= 2 that is committed
\* without the window search having hit the left limit, the terminal region
\* included, ends at or before prev.right.end - min_overlap - 1.
C18_MinimumOverlapKept ==
    [][(Committed /\ region_num >= 2 /\ ~hit_left_limit) =>
          /\ left_primer_right_limit
                = end(top_pair(regions[Len(regions)]).right) - min_overlap - 1
          /\ end(top_pair(NewRegion).left) <= left_primer_right_limit]_vars

\* C19: a window search is left only by returning a Region or by the failure a
\* right step raises when it pushes chunk_end past the end of the primary
\* reference, never by a left step; and every window search is left.
C19_WindowSearchEndsTwoWays ==
    /\ [][(pc = "find" /\ pc' # "find") =>
              \/ Committed
              \/ /\ outcome' = "no_suitable"
                 /\ region_num = 1 \/ hit_left_limit
                 /\ chunk_end' > genome_len]_vars
    /\ (pc = "find") ~> (pc # "find")

\* C20: every region committed before the terminal condition is reached moves
\* the frontier, the previous top pair's right.end, strictly to the right, which
\* is what makes the regions of a run finitely many.
C20_FrontierMovesRight ==
    [][(Committed /\ Len(regions) >= 1 /\ ~is_last_region) =>
          end(top_pair(NewRegion).right)
              > end(top_pair(regions[Len(regions)]).right)]_vars

\* A step of the window search that stays in the search or ends it by the failure.
Stepped == pc = "find" /\ ~Committed /\ outcome' # "AttributeError"

StepsRight ==
    /\ chunk_start' = chunk_start + step_size
    /\ chunk_end' = chunk_end + step_size

\* C21: in one window search region 1 only steps right; a region N >= 2 steps
\* left by step_size while the step keeps chunk_start above the left limit; the
\* step that would not puts the window back to its first bounds and enters
\* hit-left-limit mode, which is never left and in which every step is a right
\* step; no window of the left phase after the first starts at or below the limit.
C21_DirectionFlipsOnce ==
    /\ [](pc = "find" =>
            /\ region_num = 1 => (~hit_left_limit /\ chunk_start >= _chunk_start)
            /\ hit_left_limit => chunk_start >= _chunk_start
            /\ (region_num >= 2 /\ ~hit_left_limit) =>
                  /\ chunk_start <= _chunk_start
                  /\ chunk_start # _chunk_start => chunk_start > left_primer_left_limit)
    /\ [][Stepped =>
              /\ UNCHANGED <<_chunk_start, _chunk_end, region_num, left_primer_left_limit>>
              /\ chunk_end' - chunk_start' = chunk_end - chunk_start
              /\ (region_num = 1 \/ hit_left_limit) =>
                    (StepsRight /\ UNCHANGED hit_left_limit)
              /\ (region_num >= 2 /\ ~hit_left_limit
                     /\ chunk_start - step_size > left_primer_left_limit) =>
                    (/\ chunk_start' = chunk_start - step_size
                     /\ chunk_end' = chunk_end - step_size
                     /\ ~hit_left_limit')
              /\ (region_num >= 2 /\ ~hit_left_limit
                     /\ chunk_start - step_size <= left_primer_left_limit) =>
                    (/\ chunk_start' = _chunk_start
                     /\ chunk_end' = _chunk_end
                     /\ hit_left_limit')]_vars

\* A region N >= 2 stepped left, went back to its first window at the left limit
\* and has stepped right of it since.
C21_Witness ==
    /\ pc = "find" /\ region_num >= 2
    /\ hit_left_limit
    /\ _chunk_start - step_size > left_primer_left_limit
    /\ chunk_start > _chunk_start

\* C22: every window handed to designPrimers lies inside the primary reference:
\* 0 <= chunk_start < chunk_end <= len(primary_reference).
C22_WindowInsideReference ==
    pc = "find" =>
        /\ 0 <= chunk_start
        /\ chunk_start < chunk_end
        /\ chunk_end <= genome_len

\* C23: align is memoized: applied to a primer that has been scored, it leaves
\* its score and its alignment records, one per reference, as they are.
C23_AlignIsMemoized ==
    [][Committed =>
          \A primer \in PrimersOf(NewRegion) :
              /\ align(primer).percent_identity = primer.percent_identity
              /\ align(primer).alignments = primer.alignments
              /\ Len(align(primer).alignments) = Len(references)]_vars

====
